---- MODULE Spec2Model ----
(***************************************************************************)
(* apfsck validation core: key decoding and ordering (key.c), object       *)
(* checksum and header validation (object.c).                              *)
(*                                                                         *)
(* On-disk data is modelled as sequences of bytes (0..255).  CPU integers  *)
(* wider than 16 bits are little-endian sequences of 16-bit limbs, so that *)
(* u32 and u64 arithmetic keeps its width: a u32 is two limbs, a u64 four. *)
(***************************************************************************)
EXTENDS Integers, Sequences, FiniteSets, TLC

VARIABLES
    pc,         \* "running", or "exited" once report() or exit() ended the process
    sb,         \* the superblock context: s_blocksize, s_xid, case_insensitive
    call,       \* the call made last: its name and its arguments
    result,     \* what that call returned or stored through its out-parameters
    reports,    \* the defects handed to report(), in order
    keys,       \* the keys the caller holds decoded: the last two
    budget      \* how many more calls the caller makes in this run

vars == <<pc, sb, call, result, reports, keys, budget>>

(***************************************************************************)
(* Fixed-width unsigned integers                                           *)
(***************************************************************************)

\* A u32 and a u64 holding the small natural n.
u32(n) == <<n % 2^16, n \div 2^16>>
u64(n) == <<n % 2^16, n \div 2^16, 0, 0>>

\* Zero extension of a u32 to a u64 (C's integer promotion in u64 += u32).
widen(x) == x \o <<0, 0>>

\* Unsigned a < b for two integers of the same width: the highest differing
\* limb decides.
RECURSIVE LtU(_, _)
LtU(a, b) ==
    IF Len(a) = 0 THEN FALSE
    ELSE LET n == Len(a)
         IN  IF a[n] # b[n] THEN a[n] < b[n]
             ELSE LtU(SubSeq(a, 1, n - 1), SubSeq(b, 1, n - 1))

\* a + b + carry at the width of a and b; the carry out of the top is dropped.
RECURSIVE AddC(_, _, _)
AddC(a, b, c) ==
    IF a = <<>> THEN <<>>
    ELSE LET s == a[1] + b[1] + c
         IN  <<s % 2^16>> \o AddC(Tail(a), Tail(b), s \div 2^16)

\* u64 + u64, wrapping at 2^64.
Add64(a, b) == AddC(a, b, 0)

\* A faulty variant of the reduction: the low 32 bits of x, that is x % 2^32.
Mod32m1_pow2(x) == <<x[1], x[2], 0, 0>>

\* x % 0xFFFFFFFF for a u64 x, as a u64.  2^32 = 1 modulo 2^32 - 1, so the
\* remainder is that of high word + low word, folded once more.
Mod32m1(x) ==
    LET s == AddC(<<x[1], x[2], 0>>, <<x[3], x[4], 0>>, 0)
        t == AddC(<<s[1], s[2], 0>>, <<s[3], 0, 0>>, 0)
    IN  IF t[1] = 2^16 - 1 /\ t[2] = 2^16 - 1 THEN <<0, 0, 0, 0>>
        ELSE <<t[1], t[2], 0, 0>>

\* 0xFFFFFFFF - y for a u64 y below 2^32, as a u64.
Sub32m1(y) == <<2^16 - 1 - y[1], 2^16 - 1 - y[2], 0, 0>>

\* Bitwise and of two bytes and of two 16-bit limbs.
AndBit(x, y, i) == (((x \div 2^i) % 2) * ((y \div 2^i) % 2)) * 2^i
And8(x, y) ==
    ((AndBit(x, y, 0) + AndBit(x, y, 1)) + (AndBit(x, y, 2) + AndBit(x, y, 3)))
  + ((AndBit(x, y, 4) + AndBit(x, y, 5)) + (AndBit(x, y, 6) + AndBit(x, y, 7)))
And16(x, y) ==
    And8(x % 2^8, y % 2^8) + 2^8 * And8(x \div 2^8, y \div 2^8)

\* Bitwise and of two integers of the same width.
BitAnd(a, b) == [i \in 1..Len(a) |-> And16(a[i], b[i])]

(***************************************************************************)
(* Byte order conversion                                                   *)
(***************************************************************************)

\* The len bytes at byte offset off of the raw buffer.
Field(raw, off, len) == SubSeq(raw, off + 1, off + len)

\* Little-endian bytes to CPU integers.
le16_to_cpu(b) == b[1] + 2^8 * b[2]
le32_to_cpu(b) == <<b[1] + 2^8 * b[2], b[3] + 2^8 * b[4]>>
le64_to_cpu(b) == <<b[1] + 2^8 * b[2], b[3] + 2^8 * b[4],
                    b[5] + 2^8 * b[6], b[7] + 2^8 * b[8]>>

\* CPU integers to the little-endian bytes stored on disk.
cpu_to_le16(n) == <<n % 2^8, n \div 2^8>>
cpu_to_le(x) ==
    [i \in 1..(2 * Len(x)) |->
        IF i % 2 = 1 THEN x[(i + 1) \div 2] % 2^8 ELSE x[i \div 2] \div 2^8]

(***************************************************************************)
(* object.c: the checksum                                                  *)
(***************************************************************************)

APFS_MAX_CKSUM_SIZE == 8

\* The loop of fletcher64 from word i on, sums holding sum1 and sum2: each
\* pass works on the values the pass before it left.
RECURSIVE fletcher64_loop(_, _, _, _)
fletcher64_loop(buff, len, i, sums) ==
    IF Len(sums) # 2 \/ i >= len \div 4 THEN sums
    ELSE LET sum1 == Add64(sums[1], widen(le32_to_cpu(Field(buff, 4 * i, 4))))
             sum2 == Add64(sums[2], sum1)
         IN  fletcher64_loop(buff, len, i + 1, <<sum1, sum2>>)

fletcher64(addr, len) ==
    LET sums == fletcher64_loop(addr, len, 0, <<u64(0), u64(0)>>)
        sum1 == sums[1]
        sum2 == sums[2]
        c1 == Sub32m1(Mod32m1(Add64(sum1, sum2)))
        c2 == Sub32m1(Mod32m1(Add64(sum1, c1)))
    IN  <<c1[1], c1[2], c2[1], c2[2]>>

obj_verify_csum(obj) ==
    le64_to_cpu(Field(obj, 0, 8)) =
        fletcher64(Field(obj, APFS_MAX_CKSUM_SIZE,
                         sb.s_blocksize - APFS_MAX_CKSUM_SIZE),
                   sb.s_blocksize - APFS_MAX_CKSUM_SIZE)

(***************************************************************************)
(* key.c: the in-memory key and its order                                  *)
(***************************************************************************)

\* A char pointer is modelled by the bytes it points to, up to the end of
\* the buffer; the null pointer points to none.
NULL == <<>>

\* struct key
Key(id, type, number, name) ==
    [id |-> id, type |-> type, number |-> number, name |-> name]

\* strlen(3): the bytes before the first NUL.
RECURSIVE strlen(_)
strlen(s) == IF s[1] = 0 THEN 0 ELSE 1 + strlen(Tail(s))

\* strcmp(3): the difference of the first two bytes that differ, as
\* unsigned chars; 0 when both strings end together.
RECURSIVE strcmp(_, _)
strcmp(s1, s2) ==
    IF s1[1] # s2[1] THEN s1[1] - s2[1]
    ELSE IF s1[1] = 0 THEN 0
    ELSE strcmp(Tail(s1), Tail(s2))

\* How a call ends.  report() prints the defect and terminates the process:
\* the call that reported never returns.  exit(1) ends it with no report, a
\* fault kills it.
NoReport == <<>>
Nothing == <<>>
report(category, message) ==
    [status |-> "exit", report |-> <<category, message>>, value |-> Nothing]
exit_1 == [status |-> "exit", report |-> NoReport, value |-> Nothing]
Return(v) == [status |-> "return", report |-> NoReport, value |-> v]
Returned(v) == Return(v)
Crashed == [status |-> "fault", report |-> NoReport, value |-> 0]

\* strcmp() handed a null pointer is undefined behaviour: the build may fault
\* on the dereference or return anything.
NullDeref == {Crashed, Returned(-1), Returned(0), Returned(1)}

\* A faulty variant of keycmp: the number branch compares k1->number with
\* itself, so two keys that differ in number are each after the other.
keycmp_number_typo(k1, k2) ==
    IF k1.id # k2.id
    THEN {Returned(IF LtU(k1.id, k2.id) THEN -1 ELSE 1)}
    ELSE IF k1.type # k2.type
    THEN {Returned(IF k1.type < k2.type THEN -1 ELSE 1)}
    ELSE IF k1.number # k2.number
    THEN {Returned(IF LtU(k1.number, k1.number) THEN -1 ELSE 1)}
    ELSE IF k1.name = NULL
    THEN {Returned(0)}
    ELSE IF k2.name = NULL
    THEN NullDeref
    ELSE {Returned(strcmp(k1.name, k2.name))}

\* A faulty variant of keycmp: the type is compared before the id.
keycmp_type_first(k1, k2) ==
    IF k1.type # k2.type
    THEN {Returned(IF k1.type < k2.type THEN -1 ELSE 1)}
    ELSE IF k1.id # k2.id
    THEN {Returned(IF LtU(k1.id, k2.id) THEN -1 ELSE 1)}
    ELSE IF k1.number # k2.number
    THEN {Returned(IF LtU(k1.number, k2.number) THEN -1 ELSE 1)}
    ELSE IF k1.name = NULL
    THEN {Returned(0)}
    ELSE IF k2.name = NULL
    THEN NullDeref
    ELSE {Returned(strcmp(k1.name, k2.name))}

\* keycmp: the set of outcomes of keycmp(k1, k2), a single one wherever the
\* behaviour is defined.
keycmp(k1, k2) ==
    IF k1.id # k2.id
    THEN {Returned(IF LtU(k1.id, k2.id) THEN -1 ELSE 1)}
    ELSE IF k1.type # k2.type
    THEN {Returned(IF k1.type < k2.type THEN -1 ELSE 1)}
    ELSE IF k1.number # k2.number
    THEN {Returned(IF LtU(k1.number, k2.number) THEN -1 ELSE 1)}
    ELSE IF k1.name = NULL
    THEN {Returned(0)}
    ELSE IF k2.name = NULL
    THEN NullDeref
    ELSE {Returned(strcmp(k1.name, k2.name))}

(***************************************************************************)
(* Unicode normalization and CRC-32C (libapfs), used by dentry_hash        *)
(***************************************************************************)

\* The code point a UTF-8 sequence starting at s encodes, and its length in
\* bytes: one-byte and two-byte sequences.
utf8_len(s) == IF s[1] < 128 THEN 1 ELSE 2
utf8_to_utf32(s) ==
    IF s[1] < 128 THEN s[1] ELSE (s[1] - 192) * 64 + (s[2] - 128)

\* Case folding of one code point: A..Z to a..z.
fold(cp) == IF cp >= 65 /\ cp <= 90 THEN cp + 32 ELSE cp

\* Canonical decomposition of one code point: U+00E9 is U+0065 U+0301.
decompose(cp) == IF cp = 233 THEN <<101, 769>> ELSE <<cp>>

\* The code points normalize_next() yields for the name, one call after the
\* other, until it returns 0 at the terminator.
RECURSIVE normalize(_, _)
normalize(name, case_fold) ==
    IF name[1] = 0 THEN <<>>
    ELSE LET cp == utf8_to_utf32(name)
             rest == SubSeq(name, utf8_len(name) + 1, Len(name))
         IN  decompose(IF case_fold THEN fold(cp) ELSE cp)
                 \o normalize(rest, case_fold)

\* Bitwise exclusive or of two bytes, of two 16-bit limbs and of two u32.
XorBit(x, y, i) == (((x \div 2^i) + (y \div 2^i)) % 2) * 2^i
Xor8(x, y) ==
    ((XorBit(x, y, 0) + XorBit(x, y, 1)) + (XorBit(x, y, 2) + XorBit(x, y, 3)))
  + ((XorBit(x, y, 4) + XorBit(x, y, 5)) + (XorBit(x, y, 6) + XorBit(x, y, 7)))
Xor16(x, y) ==
    Xor8(x % 2^8, y % 2^8) + 2^8 * Xor8(x \div 2^8, y \div 2^8)
XorU32(a, b) == <<Xor16(a[1], b[1]), Xor16(a[2], b[2])>>

\* A u32 shifted right by k < 16 bits.
ShrU32(a, k) == <<(a[1] \div 2^k) + (a[2] % 2^k) * 2^(16 - k), a[2] \div 2^k>>

\* The table of the reflected Castagnoli polynomial 0x82F63B78, entry i at
\* position i + 1, each entry a u32.
crc32Table == <<
    <<0, 0>>, <<33539, 62059>>, <<28919, 57659>>, <<62452, 4944>>,
    <<38687, 51098>>, <<5148, 13809>>, <<59368, 9889>>, <<25835, 54474>>,
    <<22735, 35545>>, <<56268, 30898>>, <<10296, 27618>>, <<43835, 39305>>,
    <<53200, 19779>>, <<19667, 48936>>, <<48935, 44152>>, <<15396, 24083>>,
    <<51055, 4190>>, <<17516, 57909>>, <<47000, 61797>>, <<13467, 782>>,
    <<20592, 55236>>, <<54131, 9647>>, <<8327, 14079>>, <<41860, 50324>>,
    <<40864, 39559>>, <<7331, 26860>>, <<61271, 31676>>, <<27732, 35287>>,
    <<2239, 23837>>, <<35772, 44918>>, <<30792, 48166>>, <<64331, 20045>>,
    <<36574, 8381>>, <<3549, 53974>>, <<65065, 49542>>, <<32042, 13293>>,
    <<6593, 59175>>, <<39618, 5452>>, <<26934, 1564>>, <<59957, 62583>>,
    <<54801, 43620>>, <<21778, 22543>>, <<42726, 19295>>, <<9701, 47412>>,
    <<16654, 28158>>, <<49677, 40853>>, <<12793, 36037>>, <<45818, 32430>>,
    <<18865, 12515>>, <<51890, 49800>>, <<14662, 53720>>, <<47685, 9139>>,
    <<57006, 63353>>, <<23981, 1298>>, <<44633, 5698>>, <<11610, 58409>>,
    <<4478, 47674>>, <<37501, 18513>>, <<24969, 23297>>, <<57994, 43370>>,
    <<34401, 32160>>, <<1378, 36811>>, <<63126, 40091>>, <<30101, 28400>>,
    <<7612, 16763>>, <<40639, 45840>>, <<27979, 41024>>, <<61000, 21035>>,
    <<35491, 34529>>, <<2464, 29834>>, <<64084, 26586>>, <<31063, 38321>>,
    <<17779, 52130>>, <<50800, 14793>>, <<13700, 10905>>, <<46727, 55538>>,
    <<53868, 3128>>, <<20847, 65107>>, <<41627, 60675>>, <<8600, 8040>>,
    <<56019, 20773>>, <<22992, 41806>>, <<43556, 45086>>, <<10535, 17013>>,
    <<19916, 38591>>, <<52943, 25812>>, <<15675, 30596>>, <<48696, 34287>>,
    <<33308, 56316>>, <<287, 10647>>, <<62187, 15047>>, <<29160, 51372>>,
    <<5379, 7270>>, <<38400, 60941>>, <<26100, 64861>>, <<59127, 3894>>,
    <<37730, 25030>>, <<4193, 37805>>, <<58261, 33021>>, <<24726, 29334>>,
    <<1149, 42588>>, <<34686, 21559>>, <<29834, 18279>>, <<63369, 46348>>,
    <<52141, 60191>>, <<18606, 6516>>, <<47962, 2596>>, <<14425, 63567>>,
    <<23730, 11397>>, <<57265, 57070>>, <<11333, 52670>>, <<44870, 16341>>,
    <<21517, 29080>>, <<55054, 33779>>, <<9466, 37027>>, <<43001, 25288>>,
    <<49938, 46594>>, <<16401, 17513>>, <<46053, 22329>>, <<12518, 42322>>,
    <<3266, 64321>>, <<36801, 2346>>, <<31797, 6778>>, <<65334, 59409>>,
    <<39901, 15579>>, <<6366, 52912>>, <<60202, 56800>>, <<26665, 12171>>,
    <<15224, 33526>>, <<47227, 28829>>, <<19343, 25549>>, <<51340, 37286>>,
    <<44135, 17772>>, <<12132, 46855>>, <<56464, 42071>>, <<24467, 22076>>,
    <<25527, 2095>>, <<57524, 64068>>, <<4928, 59668>>, <<36931, 7039>>,
    <<62632, 53173>>, <<30635, 15838>>, <<33887, 11918>>, <<1884, 56549>>,
    <<64535, 37544>>, <<32532, 24771>>, <<36064, 29587>>, <<4067, 33272>>,
    <<27400, 21810>>, <<59403, 42841>>, <<7167, 46089>>, <<39164, 18018>>,
    <<42200, 6257>>, <<10203, 59930>>, <<54319, 63818>>, <<22316, 2849>>,
    <<13255, 57323>>, <<45252, 11648>>, <<17200, 16080>>, <<49203, 52411>>,
    <<46502, 41547>>, <<13989, 20512>>, <<50513, 17264>>, <<18002, 45339>>,
    <<8889, 26065>>, <<41402, 38842>>, <<21070, 34026>>, <<53581, 30337>>,
    <<60777, 10386>>, <<28266, 56057>>, <<40350, 51625>>, <<7837, 15298>>,
    <<31350, 61192>>, <<63861, 7523>>, <<2689, 3635>>, <<35202, 64600>>,
    <<29385, 45589>>, <<61898, 16510>>, <<574, 21294>>, <<33085, 41285>>,
    <<58838, 30095>>, <<26325, 34788>>, <<38177, 38068>>, <<5666, 26335>>,
    <<10758, 14540>>, <<43269, 51879>>, <<23281, 55799>>, <<55794, 11164>>,
    <<48409, 65366>>, <<15898, 3389>>, <<52718, 7789>>, <<20205, 60422>>,
    <<9924, 50061>>, <<42439, 12774>>, <<22067, 8886>>, <<54576, 53469>>,
    <<45531, 1047>>, <<13016, 63100>>, <<49452, 58668>>, <<16943, 5959>>,
    <<32267, 18772>>, <<64776, 47935>>, <<3836, 43119>>, <<36351, 23044>>,
    <<59668, 36558>>, <<27159, 31909>>, <<39395, 28661>>, <<6880, 40350>>,
    <<57771, 54227>>, <<25256, 8632>>, <<37212, 13032>>, <<4703, 49283>>,
    <<30388, 5193>>, <<62903, 58914>>, <<1603, 62834>>, <<34112, 1817>>,
    <<47460, 22794>>, <<14951, 43873>>, <<51603, 47153>>, <<19088, 19034>>,
    <<11899, 40592>>, <<44408, 27899>>, <<24204, 32683>>, <<56719, 36288>>,
    <<43034, 58160>>, <<11033, 4443>>, <<55533, 523>>, <<23534, 61536>>,
    <<16133, 9386>>, <<48134, 54977>>, <<20466, 50577>>, <<52465, 14330>>,
    <<61653, 27113>>, <<29654, 39810>>, <<32802, 35026>>, <<801, 31417>>,
    <<26570, 44659>>, <<58569, 23576>>, <<5949, 20296>>, <<37950, 48419>>,
    <<28533, 62318>>, <<60534, 261>>, <<8066, 4693>>, <<40065, 57406>>,
    <<63594, 13556>>, <<31593, 50847>>, <<34973, 54735>>, <<2974, 10148>>,
    <<14266, 31159>>, <<46265, 35804>>, <<18253, 39052>>, <<50254, 27367>>,
    <<41125, 48685>>, <<9126, 19526>>, <<53330, 24342>>, <<21329, 44413>>
    >>

\* crc32c(crc, buf, size): crc = crc32Table[(crc ^ *p++) & 0xff] ^ (crc >> 8),
\* byte after byte.  The test on crc makes each step take the value of the
\* step before it, as the loop does.
RECURSIVE crc32c(_, _)
crc32c(crc, buf) ==
    IF Len(crc) # 2 \/ buf = <<>> THEN crc
    ELSE crc32c(XorU32(crc32Table[Xor8(crc[1] % 2^8, buf[1]) + 1],
                       ShrU32(crc, 8)),
                Tail(buf))

\* The four bytes of a unicode_t in memory.
utf32_bytes(cp) ==
    <<cp % 2^8, (cp \div 2^8) % 2^8, (cp \div 2^16) % 2^8, 0>>

(***************************************************************************)
(* key.c: decoding the on-disk keys                                        *)
(***************************************************************************)

\* The loop of dentry_hash over the normalized code points, the hash of each
\* step a value before the next step begins.
RECURSIVE dentry_hash_loop(_, _)
dentry_hash_loop(hash, cps) ==
    IF Len(hash) # 2 \/ cps = <<>> THEN hash
    ELSE dentry_hash_loop(crc32c(hash, utf32_bytes(cps[1])), Tail(cps))

\* dentry_hash: ((hash & 0x3FFFFF) << 10) | (namelen & 0x3FF), a u32.  Bits
\* 0..5 of the hash land in bits 10..15, bits 6..21 in the high half.
\* namelen is cursor.utf8curr - name once the cursor has passed the
\* terminator: the length of the name with its NUL.
dentry_hash(name) ==
    LET hash == dentry_hash_loop(<<2^16 - 1, 2^16 - 1>>,
                                 normalize(name, sb.case_insensitive))
        namelen == strlen(name) + 1
    IN  <<(hash[1] % 2^6) * 2^10 + (namelen % 2^10),
          (hash[1] \div 2^6) + (hash[2] % 2^6) * 2^10>>

\* Sizes of the on-disk key structures (their flexible name[] member counts 0).
sizeof_apfs_key_header == 8
sizeof_apfs_omap_key == 16
sizeof_apfs_drec_hashed_key == 12
sizeof_apfs_xattr_key == 10
sizeof_apfs_snap_name_key == 10
sizeof_apfs_file_extent_key == 16
sizeof_apfs_sibling_link_key == 16

\* Catalog record types.
APFS_TYPE_XATTR == 4
APFS_TYPE_SIBLING_LINK == 5
APFS_TYPE_FILE_EXTENT == 8
APFS_TYPE_DIR_REC == 9
APFS_TYPE_SNAP_NAME == 11

\* obj_id_and_type: the type in the top 4 bits, the cnid in the low 60.
APFS_OBJ_ID_MASK == <<2^16 - 1, 2^16 - 1, 2^16 - 1, 2^12 - 1>>
APFS_OBJ_TYPE_MASK == <<0, 0, 0, 2^16 - 2^12>>
APFS_OBJ_TYPE_SHIFT == 60

read_omap_key(raw, size) ==
    IF size # sizeof_apfs_omap_key
    THEN report("Object map", "wrong size of key.")
    ELSE LET xid == le64_to_cpu(Field(raw, 8, 8))
         IN  IF xid = u64(0)
             THEN report("Object map", "transaction id for key is zero.")
             ELSE Return(Key(le64_to_cpu(Field(raw, 0, 8)), 0, xid, NULL))

cat_type(key) ==
    BitAnd(le64_to_cpu(Field(key, 0, 8)), APFS_OBJ_TYPE_MASK)[4]
        \div 2^(APFS_OBJ_TYPE_SHIFT - 48)

cat_cnid(key) == BitAnd(le64_to_cpu(Field(key, 0, 8)), APFS_OBJ_ID_MASK)

\* A faulty variant of read_dir_rec_key: the hash is not recomputed.
read_dir_rec_key_nohash(raw, size, key) ==
    IF size < sizeof_apfs_drec_hashed_key + 1
    THEN report("Directory record", "wrong size of key.")
    ELSE IF raw[size] # 0
    THEN report("Directory record", "filename lacks NULL-termination.")
    ELSE LET number == widen(le32_to_cpu(Field(raw, 8, 4)))
             name == SubSeq(raw, sizeof_apfs_drec_hashed_key + 1, Len(raw))
             namelen == number[1] % 2^10
         IN  IF strlen(name) + 1 # namelen
             THEN report("Directory record", "wrong name length in key.")
             ELSE IF size # sizeof_apfs_drec_hashed_key + namelen
             THEN report("Directory record",
                         "size of key doesn't match the name length.")
             ELSE Return(Key(key.id, key.type, number, name))

\* The parsers below receive the key with id and type filled in by
\* read_cat_key.
read_dir_rec_key(raw, size, key) ==
    IF size < sizeof_apfs_drec_hashed_key + 1
    THEN report("Directory record", "wrong size of key.")
    ELSE IF raw[size] # 0
    THEN report("Directory record", "filename lacks NULL-termination.")
    ELSE LET number == widen(le32_to_cpu(Field(raw, 8, 4)))
             name == SubSeq(raw, sizeof_apfs_drec_hashed_key + 1, Len(raw))
             namelen == number[1] % 2^10
         IN  IF number # widen(dentry_hash(name))
             THEN report("Directory record", "filename hash is corrupted.")
             ELSE IF strlen(name) + 1 # namelen
             THEN report("Directory record", "wrong name length in key.")
             ELSE IF size # sizeof_apfs_drec_hashed_key + namelen
             THEN report("Directory record",
                         "size of key doesn't match the name length.")
             ELSE Return(Key(key.id, key.type, number, name))

\* A faulty variant of read_xattr_key: the size of the key is not compared
\* with the name length.
read_xattr_key_nosize(raw, size, key) ==
    IF size < sizeof_apfs_xattr_key + 1
    THEN report("Xattr record", "wrong size of key.")
    ELSE IF raw[size] # 0
    THEN report("Xattr record", "name lacks NULL-termination.")
    ELSE LET name == SubSeq(raw, sizeof_apfs_xattr_key + 1, Len(raw))
             namelen == le16_to_cpu(Field(raw, 8, 2))
         IN  IF strlen(name) + 1 # namelen
             THEN report("Xattr record", "wrong name length.")
             ELSE Return(Key(key.id, key.type, u64(0), name))

read_xattr_key(raw, size, key) ==
    IF size < sizeof_apfs_xattr_key + 1
    THEN report("Xattr record", "wrong size of key.")
    ELSE IF raw[size] # 0
    THEN report("Xattr record", "name lacks NULL-termination.")
    ELSE LET name == SubSeq(raw, sizeof_apfs_xattr_key + 1, Len(raw))
             namelen == le16_to_cpu(Field(raw, 8, 2))
         IN  IF strlen(name) + 1 # namelen
             THEN report("Xattr record", "wrong name length.")
             ELSE IF size # sizeof_apfs_xattr_key + namelen
             THEN report("Xattr record",
                         "size of key doesn't match the name length.")
             ELSE Return(Key(key.id, key.type, u64(0), name))

read_snap_name_key(raw, size, key) ==
    IF size < sizeof_apfs_snap_name_key + 1
    THEN report("Snapshot name record", "wrong size of key.")
    ELSE IF raw[size] # 0
    THEN report("Snapshot name record", "name lacks NULL-termination.")
    ELSE LET name == SubSeq(raw, sizeof_apfs_snap_name_key + 1, Len(raw))
             namelen == le16_to_cpu(Field(raw, 8, 2))
         IN  IF strlen(name) + 1 # namelen
             THEN report("Snapshot name record", "wrong name length.")
             ELSE IF size # sizeof_apfs_snap_name_key + namelen
             THEN report("Snapshot name record",
                         "size of key doesn't match the name length.")
             ELSE Return(Key(key.id, key.type, u64(0), name))

read_file_extent_key(raw, size, key) ==
    IF size # sizeof_apfs_file_extent_key
    THEN report("Extent record", "wrong size of key.")
    ELSE Return(Key(key.id, key.type, le64_to_cpu(Field(raw, 8, 8)), NULL))

\* A faulty variant of read_sibling_link_key: the name pointer is set to the
\* bytes after the header, as the parsers of named keys do.
read_sibling_link_key_named(raw, size, key) ==
    IF size # sizeof_apfs_sibling_link_key
    THEN report("Siblink link record", "wrong size of key.")
    ELSE Return(Key(key.id, key.type, le64_to_cpu(Field(raw, 8, 8)),
                    SubSeq(raw, sizeof_apfs_key_header + 1, Len(raw))))

read_sibling_link_key(raw, size, key) ==
    IF size # sizeof_apfs_sibling_link_key
    THEN report("Siblink link record", "wrong size of key.")
    ELSE Return(Key(key.id, key.type, le64_to_cpu(Field(raw, 8, 8)), NULL))

read_cat_key(raw, size) ==
    IF size < sizeof_apfs_key_header
    THEN report("Catalog tree", "key is too small.")
    ELSE LET key == Key(cat_cnid(raw), cat_type(raw), u64(0), NULL)
         IN  CASE key.type = APFS_TYPE_DIR_REC ->
                    read_dir_rec_key(raw, size, key)
               [] key.type = APFS_TYPE_XATTR ->
                    read_xattr_key(raw, size, key)
               [] key.type = APFS_TYPE_FILE_EXTENT ->
                    read_file_extent_key(raw, size, key)
               [] key.type = APFS_TYPE_SNAP_NAME ->
                    read_snap_name_key(raw, size, key)
               [] key.type = APFS_TYPE_SIBLING_LINK ->
                    read_sibling_link_key(raw, size, key)
               [] OTHER ->
                    IF size # sizeof_apfs_key_header
                    THEN report("Catalog tree record", "wrong size of key.")
                    ELSE Return(key)

(***************************************************************************)
(* object.c: reading an object                                             *)
(***************************************************************************)

APFS_OID_RESERVED_COUNT == 1024

\* o_type: the object type in the low 16 bits, the flags in the high 16.
APFS_OBJECT_TYPE_MASK == <<2^16 - 1, 0>>
APFS_OBJECT_TYPE_FLAGS_MASK == <<0, 2^16 - 1>>
APFS_OBJECT_TYPE_FLAGS_DEFINED_MASK == <<0, 2^16 - 2^11>>
APFS_OBJ_STORAGETYPE_MASK == <<0, 2^16 - 2^14>>
APFS_OBJ_VIRTUAL == <<0, 0>>
APFS_OBJ_PHYSICAL == <<0, 2^14>>
APFS_OBJ_NONPERSISTENT == <<0, 2^11>>

\* A faulty variant: oid <= APFS_OID_RESERVED_COUNT.
reserved_oid_inclusive(oid) == ~LtU(u64(APFS_OID_RESERVED_COUNT), oid)

\* oid < APFS_OID_RESERVED_COUNT
reserved_oid(oid) == LtU(oid, u64(APFS_OID_RESERVED_COUNT))

\* A faulty variant: only !xid.
bad_xid_zero_only(xid) == xid = u64(0)

\* !xid || sb->s_xid < xid
bad_xid(xid) == xid = u64(0) \/ LtU(sb.s_xid, xid)

\* No object map: the oid is the block number.
NoOmap == <<>>
MAP_FAILED == <<>>

\* A faulty variant of read_object: the nonpersistent flag is checked before
\* the undefined flags.
read_object_flags_swapped(oid, omap, raw) ==
    LET bno == IF omap # NoOmap THEN omap.bno ELSE oid
    IN
    IF raw = MAP_FAILED THEN exit_1
    ELSE IF oid # le64_to_cpu(Field(raw, 8, 8))
    THEN report("Object header", "wrong object id in block.")
    ELSE IF reserved_oid(oid)
    THEN report("Object header", "reserved object id in block.")
    ELSE LET xid == le64_to_cpu(Field(raw, 16, 8))
             o_type == le32_to_cpu(Field(raw, 24, 4))
             obj == [oid |-> oid,
                     block_nr |-> bno,
                     type |-> BitAnd(o_type, APFS_OBJECT_TYPE_MASK),
                     flags |-> BitAnd(o_type, APFS_OBJECT_TYPE_FLAGS_MASK),
                     subtype |-> le32_to_cpu(Field(raw, 28, 4))]
             storage_type == BitAnd(obj.flags, APFS_OBJ_STORAGETYPE_MASK)
         IN  IF bad_xid(xid)
             THEN report("Object header", "bad transaction id in block.")
             ELSE IF omap # NoOmap /\ xid # omap.xid
             THEN report("Object header",
                         "transaction id in omap key doesn't match block.")
             ELSE IF BitAnd(obj.flags, APFS_OBJ_NONPERSISTENT) # u32(0)
             THEN report("Object header", "nonpersistent flag is set.")
             ELSE IF BitAnd(obj.flags, APFS_OBJECT_TYPE_FLAGS_DEFINED_MASK)
                        # obj.flags
             THEN report("Object header", "undefined flag in use.")
             ELSE IF omap # NoOmap /\ storage_type # APFS_OBJ_VIRTUAL
             THEN report("Object header", "wrong flag for virtual object.")
             ELSE IF omap = NoOmap /\ storage_type # APFS_OBJ_PHYSICAL
             THEN report("Object header", "wrong flag for physical object.")
             ELSE IF ~obj_verify_csum(raw)
             THEN report("Object header", "bad checksum in block.")
             ELSE Return([raw |-> raw, obj |-> obj])

\* read_object(oid, omap, obj).  omap is NoOmap or the record omap_lookup()
\* found for oid; raw is the block of the device at bno, or MAP_FAILED.  The
\* block number printed after "in block" is left out of the messages.
read_object(oid, omap, raw) ==
    LET bno == IF omap # NoOmap THEN omap.bno ELSE oid
    IN
    IF raw = MAP_FAILED THEN exit_1
    ELSE IF oid # le64_to_cpu(Field(raw, 8, 8))
    THEN report("Object header", "wrong object id in block.")
    ELSE IF reserved_oid(oid)
    THEN report("Object header", "reserved object id in block.")
    ELSE LET xid == le64_to_cpu(Field(raw, 16, 8))
             o_type == le32_to_cpu(Field(raw, 24, 4))
             obj == [oid |-> oid,
                     block_nr |-> bno,
                     type |-> BitAnd(o_type, APFS_OBJECT_TYPE_MASK),
                     flags |-> BitAnd(o_type, APFS_OBJECT_TYPE_FLAGS_MASK),
                     subtype |-> le32_to_cpu(Field(raw, 28, 4))]
             storage_type == BitAnd(obj.flags, APFS_OBJ_STORAGETYPE_MASK)
         IN  IF bad_xid(xid)
             THEN report("Object header", "bad transaction id in block.")
             ELSE IF omap # NoOmap /\ xid # omap.xid
             THEN report("Object header",
                         "transaction id in omap key doesn't match block.")
             ELSE IF BitAnd(obj.flags, APFS_OBJECT_TYPE_FLAGS_DEFINED_MASK)
                        # obj.flags
             THEN report("Object header", "undefined flag in use.")
             ELSE IF BitAnd(obj.flags, APFS_OBJ_NONPERSISTENT) # u32(0)
             THEN report("Object header", "nonpersistent flag is set.")
             ELSE IF omap # NoOmap /\ storage_type # APFS_OBJ_VIRTUAL
             THEN report("Object header", "wrong flag for virtual object.")
             ELSE IF omap = NoOmap /\ storage_type # APFS_OBJ_PHYSICAL
             THEN report("Object header", "wrong flag for physical object.")
             ELSE IF ~obj_verify_csum(raw)
             THEN report("Object header", "bad checksum in block.")
             ELSE Return([raw |-> raw, obj |-> obj])

(***************************************************************************)
(* The reference Fletcher-64 of the on-disk format, with sums kept modulo  *)
(* 2^32 - 1 at every step.  Blocks of the device carry this checksum.      *)
(***************************************************************************)

\* (a + b) mod (2^32 - 1) for u32 a, b.
AddModM(a, b) ==
    LET s == AddC(<<a[1], a[2], 0>>, <<b[1], b[2], 0>>, 0)
        t == IF s[3] = 1 THEN AddC(<<s[1], s[2]>>, <<1, 0>>, 0)
             ELSE <<s[1], s[2]>>
    IN  IF t = <<2^16 - 1, 2^16 - 1>> THEN <<0, 0>> ELSE t

\* (2^32 - 1) - a for a u32 a.
ComplM(a) == <<2^16 - 1 - a[1], 2^16 - 1 - a[2]>>

\* The two running sums over the words left, c holding both.
RECURSIVE RefSums(_, _)
RefSums(words, c) ==
    IF Len(c) # 2 \/ words = <<>> THEN c
    ELSE LET n0 == AddModM(c[1], words[1])
         IN  RefSums(Tail(words), <<n0, AddModM(c[2], n0)>>)

\* The checksum of a body given as its 32-bit words: low half, then high.
RefFletcher64(words) ==
    LET c == RefSums(words, <<<<0, 0>>, <<0, 0>>>>)
        low == ComplM(AddModM(c[1], c[2]))
        high == ComplM(AddModM(c[1], low))
    IN  low \o high

(***************************************************************************)
(* The device and the trees: what the calls are made on                    *)
(***************************************************************************)

\* Words of payload after the 32-byte object header in a block.
PayloadWords == 1
\* The volume's current transaction id.
VolumeXid == 2
\* UTF-8 characters (or NULs) in the name area of an enumerated key.
MaxUnits == 3

Superblocks ==
    [s_blocksize : {32 + 4 * PayloadWords},
     s_xid : {u64(VolumeXid)},
     case_insensitive : BOOLEAN]

\* Bit k of a byte buffer inverted (bit 0 is the low bit of the first byte).
FlipBit(raw, k) ==
    LET j == (k \div 8) + 1
        w == 2^(k % 8)
    IN  [raw EXCEPT ![j] = IF (raw[j] \div w) % 2 = 1 THEN raw[j] - w
                           ELSE raw[j] + w]

\* A block body (all after the checksum field) from its header fields and
\* payload words, and the block with a checksum field in front.
BlockBody(oid, xid, o_type, subtype, payload) ==
    cpu_to_le(oid) \o cpu_to_le(xid) \o cpu_to_le(o_type) \o cpu_to_le(subtype)
        \o cpu_to_le(payload)
BodyWords(body) ==
    [i \in 1..(Len(body) \div 4) |-> le32_to_cpu(Field(body, 4 * (i - 1), 4))]
Block(cksum, body) == cpu_to_le(cksum) \o body
Sealed(body) == Block(RefFletcher64(BodyWords(body)), body)

Words == {<<0, 0>>, <<1, 0>>, <<2^16 - 1, 2^16 - 1>>, <<0, 2^15>>}

\* Bodies for the checksum: one word repeated, with one word that may differ.
CsumBodies ==
    LET n == (32 + 4 * PayloadWords - APFS_MAX_CKSUM_SIZE) \div 4
    IN  {cpu_to_le([i \in 1..(2 * n) |->
                       IF (i + 1) \div 2 = p THEN w2[2 - (i % 2)]
                       ELSE w1[2 - (i % 2)]]) :
            w1 \in Words, w2 \in Words, p \in 1..n}

Oids ==
    {u64(APFS_OID_RESERVED_COUNT - 1), u64(APFS_OID_RESERVED_COUNT),
     u64(APFS_OID_RESERVED_COUNT + 1)}
Xids == {u64(x) : x \in 0..(VolumeXid + 1)}
Omaps == {NoOmap} \cup {[bno |-> u64(64), xid |-> u64(x)] : x \in 1..VolumeXid}
\* o_type values: a B-tree node with each mix of flags.
OTypes ==
    {<<2, f>> : f \in {0, 2^14, 2^15, 2^11, 2^14 + 2^11, 1, 2^14 + 1,
                       2^11 + 1, 2^15 + 2^14}}
\* Blocks on the device, each with the header fields it was written with:
\* sealed with the reference checksum, or with a checksum that is off by a bit.
ObjBlocks ==
    {[raw |-> IF sealed THEN Sealed(BlockBody(o, x, t, u32(0), pl))
              ELSE FlipBit(Sealed(BlockBody(o, x, t, u32(0), pl)), 0),
      hdr |-> [oid |-> o, xid |-> x, o_type |-> t],
      sealed |-> sealed] :
        o \in Oids, x \in Xids, t \in OTypes, sealed \in BOOLEAN,
        pl \in {[i \in 1..(2 * PayloadWords) |-> 7]}}
UnmappedBlock == [raw |-> MAP_FAILED, hdr |-> Nothing, sealed |-> FALSE]

\* Catalog key header: the cnid with the record type in the top four bits.
KeyHeader(cnid, type) ==
    cpu_to_le(<<cnid[1], cnid[2], cnid[3], cnid[4] + type * 2^12>>)

Units == {<<0>>, <<97>>, <<65>>, <<195, 169>>}
RECURSIVE Payloads(_)
Payloads(n) ==
    IF n = 0 THEN {<<>>}
    ELSE LET P == Payloads(n - 1)
         IN  P \cup {p \o u : p \in P, u \in Units}

\* A u32 with bit k inverted, and with its low 10 bits replaced.
FlipU32(h, k) == le32_to_cpu(FlipBit(cpu_to_le(h), k))
WithLen(h, d) == <<h[1] - (h[1] % 2^10) + d, h[2]>>

\* Hash/length fields for a name area p: the one hash_name gives for the
\* string in p, each single-bit change of it, and each other declared length.
HashFields(p, rich) ==
    LET h == dentry_hash(p \o <<0>>)
    IN  IF rich
        THEN {h} \cup {FlipU32(h, k) : k \in 0..31}
                 \cup {WithLen(h, d) : d \in 0..(2 * MaxUnits + 1)}
        ELSE {h, FlipU32(h, 10)}
LenFields(p, rich) ==
    IF rich THEN 0..(2 * MaxUnits + 1)
    ELSE {strlen(p \o <<0>>) + 1, strlen(p \o <<0>>) + 2}

DirRecKeys(cnid, P, rich) ==
    UNION {{KeyHeader(cnid, APFS_TYPE_DIR_REC) \o cpu_to_le(h) \o p :
               h \in HashFields(p, rich)} : p \in P}
NamedKeys(cnid, type, P, rich) ==
    UNION {{KeyHeader(cnid, type) \o cpu_to_le16(d) \o p :
               d \in LenFields(p, rich)} : p \in P}
\* Keys of the fixed-size kinds, with bodies of 0, 4, 8 and 9 bytes.
PlainKeys(cnid) ==
    {KeyHeader(cnid, t) \o b :
        t \in {0, 3, APFS_TYPE_FILE_EXTENT, APFS_TYPE_SIBLING_LINK},
        b \in {<<>>, <<1, 0, 0, 0>>, cpu_to_le(u64(0)), cpu_to_le(u64(4096)),
               cpu_to_le(u64(0)) \o <<0>>}}
        \cup {<<1, 0, 0, 0, 0, 0, 0>>}
\* Keys of the named kinds cut short: the header alone, and one byte more.
ShortKeys(cnid) ==
    {KeyHeader(cnid, t) \o b :
        t \in {APFS_TYPE_DIR_REC, APFS_TYPE_XATTR, APFS_TYPE_SNAP_NAME},
        b \in {<<>>, <<0>>}}
CatKeys(cnid, P, rich) ==
    DirRecKeys(cnid, P, rich)
        \cup ShortKeys(cnid)
        \cup NamedKeys(cnid, APFS_TYPE_XATTR, P, rich)
        \cup NamedKeys(cnid, APFS_TYPE_SNAP_NAME, P, rich)
        \cup PlainKeys(cnid)
OmapKeys(oid) ==
    {cpu_to_le(oid) \o cpu_to_le(x) : x \in Xids}
        \cup {cpu_to_le(oid), cpu_to_le(oid) \o cpu_to_le(u64(1)) \o <<0>>}

(***************************************************************************)
(* The calls                                                               *)
(***************************************************************************)

Init(n) ==
    /\ pc = "running"
    /\ sb \in Superblocks
    /\ call = [op |-> "none"]
    /\ result = Return(Nothing)
    /\ reports = <<>>
    /\ keys = <<>>
    /\ budget = n

\* The state after a call that ended in out.
Finish(c, out) ==
    /\ call' = c
    /\ result' = out
    /\ budget' = budget - 1
    /\ pc' = IF out.status = "return" THEN "running" ELSE "exited"
    /\ reports' = IF out.report = NoReport THEN reports
                  ELSE Append(reports, out.report)
    /\ UNCHANGED sb

Ready == pc = "running" /\ budget > 0

\* The caller keeps the last two keys decoded.
Keep(ks, out) ==
    IF out.status # "return" THEN ks
    ELSE IF Len(ks) < 2 THEN Append(ks, out.value)
    ELSE <<ks[2], out.value>>

ReadCatKey(inputs) ==
    /\ Ready
    /\ \E raw \in inputs :
        LET out == read_cat_key(raw, Len(raw))
        IN  /\ Finish([op |-> "read_cat_key", raw |-> raw, size |-> Len(raw)],
                      out)
            /\ keys' = Keep(keys, out)

ReadOmapKey(inputs) ==
    /\ Ready
    /\ \E raw \in inputs :
        LET out == read_omap_key(raw, Len(raw))
        IN  /\ Finish([op |-> "read_omap_key", raw |-> raw, size |-> Len(raw)],
                      out)
            /\ keys' = Keep(keys, out)

\* keycmp on the two keys the caller holds.
Keycmp ==
    /\ Ready
    /\ Len(keys) = 2
    /\ \E out \in keycmp(keys[1], keys[2]) :
        Finish([op |-> "keycmp", k1 |-> keys[1], k2 |-> keys[2]], out)
    /\ UNCHANGED keys

ReadObject ==
    /\ Ready
    /\ \E oid \in Oids, omap \in Omaps, blk \in ObjBlocks \cup {UnmappedBlock} :
        Finish([op |-> "read_object", oid |-> oid, omap |-> omap,
                raw |-> blk.raw, hdr |-> blk.hdr, sealed |-> blk.sealed],
               read_object(oid, omap, blk.raw))
    /\ UNCHANGED keys

\* obj_verify_csum on a sealed block.
VerifySealed ==
    /\ Ready
    /\ \E body \in CsumBodies :
        Finish([op |-> "obj_verify_csum", raw |-> Sealed(body),
                body |-> body, flipped |-> FALSE],
               Return(obj_verify_csum(Sealed(body))))
    /\ UNCHANGED keys

\* obj_verify_csum on a sealed block with bit k inverted.
VerifyFlipped ==
    /\ Ready
    /\ \E body \in CsumBodies, k \in 0..(8 * sb.s_blocksize - 1) :
        Finish([op |-> "obj_verify_csum", raw |-> FlipBit(Sealed(body), k),
                body |-> body, flipped |-> TRUE],
               Return(obj_verify_csum(FlipBit(Sealed(body), k))))
    /\ UNCHANGED keys

\* Keys as a caller may build them, whatever their origin: every mix of id,
\* type and number, with no name or with one.
CmpKeys ==
    {Key(id, t, n, nm) :
        id \in {u64(1), <<1, 0, 0, 2^15>>},
        t \in {APFS_TYPE_XATTR, APFS_TYPE_DIR_REC},
        n \in {u64(0), <<0, 0, 0, 2^15>>},
        nm \in {NULL, <<0>>, <<97, 0>>, <<200, 0>>, <<97, 200, 0>>}}

\* keycmp on each pair of three keys.
KeycmpCalls ==
    /\ Ready
    /\ \E a \in CmpKeys, b \in CmpKeys, c \in CmpKeys :
        \E aa \in keycmp(a, a), ab \in keycmp(a, b), ba \in keycmp(b, a),
           bc \in keycmp(b, c), ac \in keycmp(a, c) :
            /\ call' = [op |-> "keycmp", a |-> a, b |-> b, c |-> c]
            /\ result' = [aa |-> aa, ab |-> ab, ba |-> ba, bc |-> bc, ac |-> ac]
            /\ pc' = IF \E r \in {aa, ab, ba, bc, ac} : r.status = "fault"
                     THEN "exited" ELSE "running"
    /\ budget' = budget - 1
    /\ UNCHANGED <<sb, reports, keys>>

(***************************************************************************)
(* Specifications                                                          *)
(***************************************************************************)

\* Calls the tree walk makes in one run.
MaxCalls == 3

\* Name areas of the keys in the tree that is walked.
TreePayloads == {<<0>>, <<97, 0>>, <<65, 0>>, <<97>>}

\* The tree walk: keys of the catalog and of the object map are decoded and
\* compared.
InitTree == Init(MaxCalls)
NextTree ==
    \/ ReadCatKey(CatKeys(u64(1), TreePayloads, FALSE))
    \/ ReadOmapKey(OmapKeys(u64(1)))
    \/ Keycmp
Spec == InitTree /\ [][NextTree]_vars

\* One call of the key decoder on any key.
InitOne == Init(1)
NextDec ==
    \/ ReadCatKey(CatKeys(u64(2), Payloads(MaxUnits), TRUE))
    \/ ReadOmapKey(OmapKeys(u64(2)))
SpecDec == InitOne /\ [][NextDec]_vars

\* One call of read_object.
NextObj == ReadObject
SpecObj == InitOne /\ [][NextObj]_vars

\* One call of obj_verify_csum.
NextCsum == VerifySealed \/ VerifyFlipped
SpecCsum == InitOne /\ [][NextCsum]_vars

\* keycmp on three keys.
NextCmp == KeycmpCalls
SpecCmp == InitOne /\ [][NextCmp]_vars

(***************************************************************************)
(* Properties of keycmp                                                    *)
(***************************************************************************)

Sgn(x) == IF x < 0 THEN -1 ELSE IF x > 0 THEN 1 ELSE 0

\* Two keys that agree on id, type and number.
SameIdn(x, y) == x.id = y.id /\ x.type = y.type /\ x.number = y.number

\* One of the two keys carries a name, the other none, and nothing but the
\* names is left to tell them apart.
Mixed(x, y) == SameIdn(x, y) /\ ((x.name = NULL) # (y.name = NULL))

\* keycmp was run on each pair of three keys.
Compared == call.op = "keycmp" /\ "c" \in DOMAIN call

\* The laws of a strict weak order on the five results.
OrderLaws ==
    /\ \A r \in {result.aa, result.ab, result.ba, result.bc, result.ac} :
            r.status = "return"
    /\ result.aa.value = 0
    /\ Sgn(result.ab.value) = -Sgn(result.ba.value)
    /\ (result.ab.value <= 0 /\ result.bc.value <= 0
            => result.ac.value <= 0)

\* C1 as stated: keycmp is a strict weak order over all structured keys,
\* also when one key carries a name and the other does not: keycmp(a,a) = 0,
\* keycmp(a,b) and keycmp(b,a) have opposite signs, and keycmp(a,b) <= 0 and
\* keycmp(b,c) <= 0 imply keycmp(a,c) <= 0.
C1_StrictWeakOrderAllKeys == Compared => OrderLaws

\* C1, amended: keycmp is a strict weak order over every set of keys in which
\* two keys that agree on id, type and number both carry a name or both carry
\* none.
C1_StrictWeakOrder ==
    Compared /\ ~Mixed(call.a, call.b) /\ ~Mixed(call.b, call.c)
             /\ ~Mixed(call.a, call.c)
        => OrderLaws

\* Three named keys that only their names tell apart, in ascending order.
C1_Witness ==
    /\ Compared
    /\ SameIdn(call.a, call.b) /\ SameIdn(call.b, call.c)
    /\ call.a.name # NULL /\ call.b.name # NULL /\ call.c.name # NULL
    /\ result.ab.value < 0 /\ result.bc.value < 0 /\ result.ac.value < 0

\* Unsigned a < b on the limbs: the highest limb that differs is smaller.
UBelow(a, b) ==
    \E i \in 1..Len(a) :
        a[i] < b[i] /\ \A j \in (i + 1)..Len(a) : a[j] = b[j]

\* The characters of a C string: the bytes before its first NUL.
Chars(s) ==
    SubSeq(s, 1, CHOOSE n \in 0..(Len(s) - 1) :
                    s[n + 1] = 0 /\ \A j \in 1..n : s[j] # 0)

\* Byte-wise order of two names: at the first position where they differ x
\* has ended or holds the smaller byte.
NameBefore(s, t) ==
    LET x == Chars(s)
        y == Chars(t)
    IN  \E i \in 1..Len(y) :
            /\ \A j \in 1..(i - 1) : j <= Len(x) /\ x[j] = y[j]
            /\ (i > Len(x) \/ x[i] < y[i])

\* Lexicographic order of (id, type, number, name): -1, 0 or 1.
LexOrder(x, y) ==
    IF x.id # y.id THEN (IF UBelow(x.id, y.id) THEN -1 ELSE 1)
    ELSE IF x.type # y.type THEN (IF x.type < y.type THEN -1 ELSE 1)
    ELSE IF x.number # y.number
    THEN (IF UBelow(x.number, y.number) THEN -1 ELSE 1)
    ELSE IF x.name = NULL /\ y.name = NULL THEN 0
    ELSE IF NameBefore(x.name, y.name) THEN -1
    ELSE IF NameBefore(y.name, x.name) THEN 1
    ELSE 0

\* keycmp(x, y) returned r and r has the sign of the lexicographic order.
Agrees(x, y, r) ==
    ~Mixed(x, y) => r.status = "return" /\ Sgn(r.value) = LexOrder(x, y)

Verified == call.op = "obj_verify_csum"

\* C3: a block whose checksum field holds the reference Fletcher-64 of its
\* body is accepted by obj_verify_csum, and the same block with any single bit
\* inverted, in the body or in the checksum field, is rejected.
C3_ChecksumAcceptsAndRejects ==
    Verified =>
        /\ result.status = "return"
        /\ result.value = ~call.flipped

\* A block with one bit of its body inverted was rejected.
C3_Witness ==
    /\ Verified
    /\ call.flipped
    /\ Field(call.raw, 0, APFS_MAX_CKSUM_SIZE)
           = Field(Sealed(call.body), 0, APFS_MAX_CKSUM_SIZE)
    /\ call.raw # Sealed(call.body)
    /\ result.value = FALSE

(***************************************************************************)
(* Properties of read_object                                               *)
(***************************************************************************)

\* read_object was run on a block of the device.
ObjectRead == call.op = "read_object" /\ call.raw # MAP_FAILED

\* The header the block was written with, read off its fields.
SmallOid(oid, n) == oid[2] = 0 /\ oid[3] = 0 /\ oid[4] = 0 /\ oid[1] < n
XidInRange(xid) ==
    /\ xid[2] = 0 /\ xid[3] = 0 /\ xid[4] = 0
    /\ xid[1] >= 1 /\ xid[1] <= VolumeXid
FlagBits(hdr) == hdr.o_type[2]
UndefinedFlags(hdr) == FlagBits(hdr) % 2^11 # 0
Nonpersistent(hdr) == (FlagBits(hdr) \div 2^11) % 2 = 1
StorageType(hdr) ==
    CASE FlagBits(hdr) \div 2^14 = 0 -> "virtual"
      [] FlagBits(hdr) \div 2^14 = 1 -> "physical"
      [] OTHER -> "ephemeral"

\* The first check of the documented order that the call fails, or "none".
FirstDefect(c) ==
    IF c.hdr.oid # c.oid THEN "wrong object id in block."
    ELSE IF SmallOid(c.oid, APFS_OID_RESERVED_COUNT)
    THEN "reserved object id in block."
    ELSE IF ~XidInRange(c.hdr.xid) THEN "bad transaction id in block."
    ELSE IF c.omap # NoOmap /\ c.omap.xid # c.hdr.xid
    THEN "transaction id in omap key doesn't match block."
    ELSE IF UndefinedFlags(c.hdr) THEN "undefined flag in use."
    ELSE IF Nonpersistent(c.hdr) THEN "nonpersistent flag is set."
    ELSE IF c.omap # NoOmap /\ StorageType(c.hdr) # "virtual"
    THEN "wrong flag for virtual object."
    ELSE IF c.omap = NoOmap /\ StorageType(c.hdr) # "physical"
    THEN "wrong flag for physical object."
    ELSE IF ~c.sealed THEN "bad checksum in block."
    ELSE "none"

\* C4: read_object checks the header in a fixed order and fails fast: the one
\* defect reported is the first violated check in the order stored id,
\* reserved id, transaction id, object map transaction id, undefined flags,
\* nonpersistent flag, storage type, checksum; the process ends on it and no
\* block is returned.
C4_FirstDefectOnly ==
    ObjectRead =>
        IF FirstDefect(call) = "none"
        THEN result.status = "return" /\ reports = <<>>
        ELSE /\ result.status = "exit"
             /\ result.value = Nothing
             /\ reports = <<<<"Object header", FirstDefect(call)>>>>
             /\ pc = "exited"

\* A block with a foreign id, a transaction id of the future, undefined
\* flags and a bad checksum: the id alone was reported.
C4_Witness ==
    /\ ObjectRead
    /\ call.hdr.oid # call.oid
    /\ ~XidInRange(call.hdr.xid)
    /\ UndefinedFlags(call.hdr) /\ Nonpersistent(call.hdr)
    /\ ~call.sealed
    /\ reports = <<<<"Object header", "wrong object id in block.">>>>
    /\ pc = "exited"

ReservedReport == <<"Object header", "reserved object id in block.">>

\* C5 as stated: every requested oid that does not exceed the reserved-id
\* threshold, an oid equal to it included, makes read_object report a
\* reserved object id and return no block.  Stated for the blocks that store
\* the requested oid, which pass the check made before this one.
C5_ReservedUpToThreshold ==
    ObjectRead /\ call.hdr.oid = call.oid
               /\ SmallOid(call.oid, APFS_OID_RESERVED_COUNT + 1) =>
        /\ result.status = "exit"
        /\ reports = <<ReservedReport>>

\* C5, amended: read_object returns no block for an oid below
\* APFS_OID_RESERVED_COUNT, reporting a reserved object id when the block
\* stores that oid and a wrong object id when it stores another; an oid
\* equal to the count is not reserved.
C5_ReservedBelowCount ==
    ObjectRead =>
        /\ SmallOid(call.oid, APFS_OID_RESERVED_COUNT) =>
                /\ result.status = "exit"
                /\ result.value = Nothing
                /\ reports = IF call.hdr.oid = call.oid
                             THEN <<ReservedReport>>
                             ELSE <<<<"Object header",
                                      "wrong object id in block.">>>>
        /\ ~SmallOid(call.oid, APFS_OID_RESERVED_COUNT) =>
                reports # <<ReservedReport>>
        /\ (call.oid = u64(APFS_OID_RESERVED_COUNT)
                /\ FirstDefect(call) = "none") => result.status = "return"

\* The last reserved oid was asked for, and the block stores it.
C5_Witness ==
    /\ ObjectRead
    /\ call.oid = u64(APFS_OID_RESERVED_COUNT - 1)
    /\ call.hdr.oid = call.oid
    /\ reports = <<ReservedReport>>
    /\ result.status = "exit"

\* C6: a block read_object returns was not reported, stores the requested
\* id, has a transaction id that is nonzero, not above the volume's and equal
\* to the object map record's if a map was used, has no undefined and no
\* nonpersistent flag, is virtual if and only if a map was used and physical
\* otherwise, and carries a checksum that verifies.
C6_SoundGate ==
    ObjectRead /\ result.status = "return" =>
        /\ reports = <<>>
        /\ result.value.raw = call.raw
        /\ call.hdr.oid = call.oid
        /\ XidInRange(call.hdr.xid)
        /\ (call.omap # NoOmap => call.omap.xid = call.hdr.xid)
        /\ ~UndefinedFlags(call.hdr)
        /\ ~Nonpersistent(call.hdr)
        /\ (StorageType(call.hdr) = "virtual" <=> call.omap # NoOmap)
        /\ (call.omap = NoOmap => StorageType(call.hdr) = "physical")
        /\ call.sealed
        /\ obj_verify_csum(call.raw)

\* A virtual object was returned through the object map.
C6_Witness ==
    /\ ObjectRead
    /\ result.status = "return"
    /\ call.omap # NoOmap
    /\ call.hdr.xid = u64(VolumeXid)
    /\ result.value.obj.block_nr = call.omap.bno

(***************************************************************************)
(* Properties of the key decoders                                          *)
(***************************************************************************)

\* read_cat_key was run on a key of a named kind: a directory entry, an
\* extended attribute or a snapshot name.
CatKeyRead == call.op = "read_cat_key"
RawType(raw) == raw[8] \div 2^4
NamedTypes == {APFS_TYPE_DIR_REC, APFS_TYPE_XATTR, APFS_TYPE_SNAP_NAME}
NamedKeyRead ==
    CatKeyRead /\ call.size >= sizeof_apfs_key_header
               /\ RawType(call.raw) \in NamedTypes
DirKeyRead == NamedKeyRead /\ RawType(call.raw) = APFS_TYPE_DIR_REC

\* The layout of a named key: the fixed part of its variant, the length it
\* declares, the 22 hash bits of a directory entry, and the name area.
HeaderSize(raw) ==
    IF RawType(raw) = APFS_TYPE_DIR_REC THEN sizeof_apfs_drec_hashed_key
    ELSE IF RawType(raw) = APFS_TYPE_XATTR THEN sizeof_apfs_xattr_key
    ELSE sizeof_apfs_snap_name_key
Truncated(raw) == Len(raw) < HeaderSize(raw)
DeclaredLen(raw) ==
    IF RawType(raw) = APFS_TYPE_DIR_REC
    THEN (raw[9] + 2^8 * raw[10]) % 2^10
    ELSE raw[9] + 2^8 * raw[10]
HashBits(field) == <<field[1] \div 2^10, field[2]>>
StoredField(raw) == <<raw[9] + 2^8 * raw[10], raw[11] + 2^8 * raw[12]>>
NameArea(raw) == SubSeq(raw, HeaderSize(raw) + 1, Len(raw))

\* The three defects of a name area.
Unterminated(raw) ==
    NameArea(raw) = <<>> \/ NameArea(raw)[Len(NameArea(raw))] # 0
WrongLength(raw) ==
    ~Unterminated(raw) /\ DeclaredLen(raw) # Len(Chars(NameArea(raw))) + 1
WrongSize(raw) == Len(raw) # HeaderSize(raw) + DeclaredLen(raw)

\* The 22 hash bits of a directory entry are those of its name.
HashBitsRight(raw) ==
    HashBits(StoredField(raw)) = HashBits(dentry_hash(NameArea(raw)))

ReportCategory(raw) ==
    IF RawType(raw) = APFS_TYPE_DIR_REC THEN "Directory record"
    ELSE IF RawType(raw) = APFS_TYPE_XATTR THEN "Xattr record"
    ELSE "Snapshot name record"

\* C7: read_cat_key reports a defect for every directory-entry, extended-
\* attribute and snapshot-name key whose name area does not end in a NUL,
\* whose declared name length differs from the length of the terminated name
\* with its terminator, or whose size differs from the header size plus the
\* declared length; a key with none of these defects, and with the right
\* hash if it is a directory entry, decodes without a report.
C7_NamedKeyDefects ==
    NamedKeyRead =>
        IF \/ Truncated(call.raw) \/ Unterminated(call.raw)
           \/ WrongLength(call.raw) \/ WrongSize(call.raw)
        THEN /\ result.status = "exit"
             /\ Len(reports) = 1
             /\ reports[1][1] = ReportCategory(call.raw)
        ELSE (RawType(call.raw) = APFS_TYPE_DIR_REC
                    => HashBitsRight(call.raw))
                => /\ result.status = "return"
                   /\ reports = <<>>
                   /\ result.value.name = NameArea(call.raw)

\* An extended attribute whose name ends before the declared length, in a key
\* of the matching size: the length was reported.
C7_Witness ==
    /\ NamedKeyRead
    /\ RawType(call.raw) = APFS_TYPE_XATTR
    /\ ~Truncated(call.raw) /\ ~Unterminated(call.raw)
    /\ WrongLength(call.raw) /\ ~WrongSize(call.raw)
    /\ reports = <<<<"Xattr record", "wrong name length.">>>>

\* C8: in a directory-entry key, wrong hash bits are reported as a corrupted
\* hash, and a declared name length that disagrees with the actual one, the
\* key having no other defect, is reported as a wrong length and not as a
\* corrupted hash.
C8_LengthErrorDistinct ==
    DirKeyRead /\ ~Truncated(call.raw) /\ ~Unterminated(call.raw) =>
        /\ ~HashBitsRight(call.raw) =>
                reports = <<<<"Directory record",
                              "filename hash is corrupted.">>>>
        /\ (HashBitsRight(call.raw) /\ WrongLength(call.raw)
                /\ ~WrongSize(call.raw)) =>
                reports = <<<<"Directory record",
                              "wrong name length in key.">>>>

\* A directory-entry key as it is written for the name in its name area.
WellFormed(raw) ==
    /\ ~Truncated(raw) /\ ~Unterminated(raw)
    /\ Len(Chars(NameArea(raw))) + 1 = Len(NameArea(raw))
OneBitOff(f, h) == \E k \in 0..31 : f = FlipU32(h, k)

\* C9: a directory-entry key that stores dentry_hash(name) for its NUL-
\* terminated name, with the name's length and terminator in the low 10 bits,
\* in a key of header size plus that length, decodes without a report into
\* that name and that number; with any single bit of the stored field
\* inverted the decode reports a corrupted hash or a wrong length.
C9_HashRoundTrip ==
    DirKeyRead /\ WellFormed(call.raw) =>
        LET h == dentry_hash(NameArea(call.raw))
            f == StoredField(call.raw)
        IN  /\ h[1] % 2^10 = Len(NameArea(call.raw))
            /\ f = h =>
                /\ result.status = "return"
                /\ reports = <<>>
                /\ result.value.name = NameArea(call.raw)
                /\ result.value.number = <<h[1], h[2], 0, 0>>
                /\ result.value.type = APFS_TYPE_DIR_REC
            /\ OneBitOff(f, h) =>
                /\ result.status = "exit"
                /\ Len(reports) = 1
                /\ reports[1] \in
                     {<<"Directory record", "filename hash is corrupted.">>,
                      <<"Directory record", "wrong name length in key.">>}

\* The key of a name of two code points after normalization, with one of its
\* hash bits inverted, was reported.
C9_Witness ==
    /\ DirKeyRead
    /\ NameArea(call.raw) = <<65, 195, 169, 0>>
    /\ StoredField(call.raw) = FlipU32(dentry_hash(NameArea(call.raw)), 20)
    /\ reports = <<<<"Directory record", "filename hash is corrupted.">>>>

\* C10: a key read_cat_key or read_omap_key produces carries a name exactly
\* if it is a directory-entry, extended-attribute or snapshot-name key;
\* object-map keys carry none and a nonzero number.  So two decoded keys that
\* agree on id, type and number both carry a name or both carry none, and
\* keycmp never compares the name of one key with the missing name of another.
C10_NameByType ==
    /\ CatKeyRead /\ result.status = "return" =>
            /\ result.value.type = RawType(call.raw)
            /\ result.value.name # NULL <=> RawType(call.raw) \in NamedTypes
    /\ call.op = "read_omap_key" /\ result.status = "return" =>
            /\ result.value.name = NULL
            /\ result.value.type = 0
            /\ result.value.number # u64(0)
    /\ \A i \in 1..Len(keys) :
            keys[i].name # NULL <=> keys[i].type \in NamedTypes
    /\ \A i, j \in 1..Len(keys) : ~Mixed(keys[i], keys[j])
    /\ call.op = "keycmp" =>
            /\ ~Mixed(call.k1, call.k2)
            /\ result.status = "return"
            /\ keycmp(call.k1, call.k2) = {result}

\* keycmp told two decoded extended-attribute keys apart by their names.
C10_Witness ==
    /\ call.op = "keycmp"
    /\ SameIdn(call.k1, call.k2)
    /\ call.k1.type = APFS_TYPE_XATTR
    /\ call.k1.name # NULL /\ call.k2.name # NULL
    /\ result.value < 0

====
